---- MODULE Spec2Model ----
(***************************************************************************)
(* The student-management backend (backend/app.py): five Flask handlers    *)
(* over one PostgreSQL table.  Each handler opens its own connection, runs *)
(* its statements in one transaction (psycopg2 opens it at the first       *)
(* execute, READ COMMITTED), commits or rolls back, and closes.            *)
(*                                                                         *)
(* A handler is split only where another request can observe or change the *)
(* table in between: before the statement that follows a SELECT and before *)
(* conn.commit().  Everything local to the request (get_json, validation,  *)
(* connect, cursor, except/finally) belongs to the step it precedes or     *)
(* follows.  A statement that has to wait for a row or index lock of an    *)
(* open transaction is a step that is not enabled until that transaction   *)
(* ends.                                                                   *)
(***************************************************************************)
EXTENDS Integers, Sequences, FiniteSets, TLC

VARIABLES table, nextId, req

vars == <<table, nextId, req>>

\* Concurrent requests in flight (one per worker thread of the HTTP runtime).
Clients == {"c1", "c2"}

\* Values the sequence students_id_seq may hand out: 1..MaxId.
MaxId == 2

----------------------------------------------------------------------------
(* Values of a JSON request body *)

Absent == "<absent>"    \* the key is not in the JSON object
Null == "<null>"        \* JSON null, Python None, SQL NULL
Bad == "<bad>"          \* a value PostgreSQL rejects for the column's type

required_fields == <<"name", "email", "age", "course">>

Columns == {"name", "email", "age", "course"}

Names == {"", "Ann B"}
Emails == {"ann@x.com", "bob@x.com"}
Ages == {"20"}
Courses == {"CS"}

Object(n, e, a, k) ==
    [kind |-> "object", name |-> n, email |-> e, age |-> a, course |-> k]

\* What request.get_json() returns when the body is JSON null.
NoneBody == [kind |-> "none", name |-> Absent, email |-> Absent,
             age |-> Absent, course |-> Absent]

\* What request.get_json() returns for the JSON array [].
ArrayBody == [kind |-> "array", name |-> Absent, email |-> Absent,
              age |-> Absent, course |-> Absent]

\* Objects with every key present and a value the columns accept.
ValidObjects == {Object(n, e, a, k) : n \in Names, e \in Emails,
                                      a \in Ages, k \in Courses}

\* Objects holding any subset of the four keys.
PartialObjects == {Object(n, e, a, k) : n \in {Absent, "Ann B"},
                                        e \in {Absent, "ann@x.com"},
                                        a \in {Absent, "20"},
                                        k \in {Absent, "CS"}}

\* Objects with every key present and one value null or wrong-typed.
OddObjects ==
    {[Object("Ann B", "ann@x.com", "20", "CS") EXCEPT ![f] = Null] : f \in Columns}
        \cup {Object("Ann B", "ann@x.com", Bad, "CS")}

Payloads == ValidObjects \cup PartialObjects \cup OddObjects
                \cup {NoneBody, ArrayBody}

----------------------------------------------------------------------------
(* Rows, transactions, requests *)

NoRow == [id |-> 0, name |-> Null, email |-> Null, age |-> Null, course |-> Null]

NoTx == [kind |-> "none", row |-> NoRow]

\* A request before anything has happened to it.
Request(o, i, d) ==
    [op |-> o, id |-> i, data |-> d, pc |-> "start", conn |-> "none",
     tx |-> NoTx, status |-> 0, error |-> "", message |-> "", body |-> <<>>,
     exc |-> "", uncaught |-> FALSE]

Ids(t) == {r.id : r \in t}

RowOf(t, i) == CHOOSE r \in t : r.id = i

----------------------------------------------------------------------------
(* The students table: constraints and locks of the store *)

\* The table declared without NOT NULL on its columns.
NoNotNullCheck(row) == FALSE

\* name, email, age, course are NOT NULL.
NotNullViolation(row) == \E f \in Columns : row[f] = Null

\* age INTEGER: a value that is no integer is rejected (a DataError).
InvalidText(row) == row.age = Bad

\* The table declared without UNIQUE on email.
NoUniqueCheck(t, row) == FALSE

\* email UNIQUE: another committed row holds the email.
UniqueViolation(t, row) == \E r \in t : r.email = row.email /\ r.id # row.id

\* Another open transaction has updated or deleted row i and not ended yet.
RowLocked(c, i) ==
    \E d \in Clients \ {c} :
        req[d].tx.kind \in {"update", "delete"} /\ req[d].tx.row.id = i

\* Another open transaction holds a row version with row's email in the
\* unique index whose fate is not decided: the check waits for it to end.
EmailInDoubt(c, row) ==
    \E d \in Clients \ {c} :
        LET w == req[d].tx
        IN  /\ w.kind # "none"
            /\ w.row.id # row.id
            /\ \/ w.row.email = row.email
               \/ /\ w.kind = "update"
                  /\ RowOf(table, w.row.id).email = row.email

RECURSIVE SortByIdDesc(_)
\* SELECT * FROM students ORDER BY id DESC
SortByIdDesc(t) ==
    IF t = {} THEN <<>>
    ELSE LET first == CHOOSE r \in t : \A q \in t : r.id >= q.id
         IN  <<first>> \o SortByIdDesc(t \ {first})

RECURSIVE SortById(_)
\* SELECT * FROM students ORDER BY id
SortById(t) ==
    IF t = {} THEN <<>>
    ELSE LET first == CHOOSE r \in t : \A q \in t : r.id <= q.id
         IN  <<first>> \o SortById(t \ {first})

----------------------------------------------------------------------------
(* What a handler does with a request body *)

\* The loop over required_fields reporting the last absent field.
LastMissing(data) ==
    LET absent == {i \in 1..Len(required_fields) :
                      ~(data.kind = "object" /\ data[required_fields[i]] # Absent)}
    IN  IF absent = {} THEN ""
        ELSE required_fields[CHOOSE i \in absent : \A j \in absent : i >= j]

\* field in data
Has(data, f) == data.kind = "object" /\ data[f] # Absent

\* The first field of required_fields that is not in data, "" when none is.
FirstMissing(data) ==
    LET absent == {i \in 1..Len(required_fields) : ~Has(data, required_fields[i])}
    IN  IF absent = {} THEN ""
        ELSE required_fields[CHOOSE i \in absent : \A j \in absent : i <= j]

\* data.get(f)
Get(data, f) == IF data[f] = Absent THEN Null ELSE data[f]

\* The row create_student hands to INSERT, with the id the sequence gives.
InsertRow(data) ==
    [id |-> nextId, name |-> data.name, email |-> data.email,
     age |-> data.age, course |-> data.course]

\* The row update_student hands to UPDATE ... WHERE id = i.
UpdateRow(data, i) ==
    [id |-> i, name |-> Get(data, "name"), email |-> Get(data, "email"),
     age |-> Get(data, "age"), course |-> Get(data, "course")]

----------------------------------------------------------------------------
(* How a handler ends *)

\* psycopg2.connect succeeded.
Open(r) == [r EXCEPT !.conn = "open"]

\* finally: cursor.close(); conn.close().  Closing ends the transaction:
\* what was not committed is discarded.
Close(r) == [r EXCEPT !.conn = IF r.conn = "open" THEN "closed" ELSE r.conn,
                      !.tx = NoTx]

\* return jsonify(...), status
Returned(r, status, error, message, body) ==
    [Close(r) EXCEPT !.pc = "done", !.status = status, !.error = error,
                     !.message = message, !.body = body]

\* return jsonify({'error': error}), status
Error(r, status, error) == Returned(r, status, error, "", <<>>)

\* except Exception as e: (conn.rollback()) logger.error(...) return ..., 500
Failed(r, exc, error) == Error([r EXCEPT !.exc = exc], 500, error)

\* create_student without its except psycopg2.IntegrityError clause.
ConflictUnhandled(r) == Failed(r, "IntegrityError", "Failed to create student")

\* except psycopg2.IntegrityError: conn.rollback() return ..., 409
Conflict(r) == Error([r EXCEPT !.exc = "IntegrityError"], 409, "Email already exists")

\* An exception leaves the handler: Flask answers 500 with its own HTML page.
Escaped(r, exc) ==
    [r EXCEPT !.pc = "done", !.status = 500, !.error = "", !.message = "",
              !.body = <<>>, !.exc = exc, !.uncaught = TRUE]

\* conn.cursor() raised inside try: the except clause answers 500, and then
\* finally's cursor.close() raises UnboundLocalError before conn.close().
CursorFailed(r) == Escaped(r, "UnboundLocalError")

\* get_db_connection() returned None.
Unreachable(r) == Error(r, 500, "Database connection failed")

\* What the environment does to the handler's next store call.
\* "connect": psycopg2.connect raises; "cursor": conn.cursor raises;
\* "execute": cursor.execute or conn.commit raises an OperationalError.
Envs == {"ok", "connect", "cursor", "execute"}

Free(c) == req[c].pc \in {"idle", "done"}

Set(c, r) == req' = [req EXCEPT ![c] = r]

----------------------------------------------------------------------------
(* GET /api/students *)

ListOutcome(env) ==
    LET r == Request("list", 0, NoneBody)
    IN  CASE env = "connect" -> Unreachable(r)
          [] env = "cursor" -> CursorFailed(Open(r))
          [] env = "execute" ->
                Failed(Open(r), "OperationalError", "Failed to fetch students")
          [] OTHER -> Returned(Open(r), 200, "", "", SortById(table))

get_students(c, env) ==
    /\ Free(c)
    /\ Set(c, ListOutcome(env))
    /\ UNCHANGED <<table, nextId>>

(* GET /api/students/<id> *)

GetOutcome(student_id, env) ==
    LET r == Request("get", student_id, NoneBody)
    IN  CASE env = "connect" -> Unreachable(r)
          [] env = "cursor" -> CursorFailed(Open(r))
          [] env = "execute" ->
                Failed(Open(r), "OperationalError", "Failed to fetch student")
          [] OTHER ->
                IF student_id \in Ids(table)
                THEN Returned(Open(r), 200, "", "", <<RowOf(table, student_id)>>)
                ELSE Error(Open(r), 404, "Student not found")

get_student(c, student_id, env) ==
    /\ Free(c)
    /\ Set(c, GetOutcome(student_id, env))
    /\ UNCHANGED <<table, nextId>>

----------------------------------------------------------------------------
(* POST /api/students *)

\* create_student up to the INSERT: the fields are validated before a
\* connection is asked for.
ValidateOutcome(data, env) ==
    LET r == Request("create", 0, data)
    IN  CASE data.kind = "none" -> Escaped(r, "TypeError")
          [] data.kind # "none" /\ FirstMissing(data) # "" ->
                Error(r, 400, "Missing required field: " \o FirstMissing(data))
          [] OTHER ->
                CASE env = "connect" -> Unreachable(r)
                  [] env = "cursor" -> CursorFailed(Open(r))
                  [] OTHER -> [Open(r) EXCEPT !.pc = "insert"]

\* The sequence values still to be handed out are not all promised to
\* requests that are about to INSERT.
SequenceLeft(c) ==
    nextId + Cardinality({d \in Clients \ {c} : req[d].pc = "insert"}) <= MaxId

create_student(c, data, env) ==
    /\ Free(c)
    /\ SequenceLeft(c)
    /\ env # "execute"
    /\ Set(c, ValidateOutcome(data, env))
    /\ UNCHANGED <<table, nextId>>

\* The INSERT gets as far as the unique index.
InsertReachesIndex(r, env) ==
    /\ env = "ok"
    /\ ~InvalidText(InsertRow(r.data))
    /\ ~NotNullViolation(InsertRow(r.data))

\* create_student from the INSERT to the return or to conn.commit().
InsertOutcome(r, env) ==
    LET row == InsertRow(r.data)
    IN  IF env = "execute"
        THEN Failed(r, "OperationalError", "Failed to create student")
        ELSE IF InvalidText(row)
        THEN Failed(r, "DataError", "Failed to create student")
        ELSE IF NotNullViolation(row) \/ UniqueViolation(table, row)
        THEN Conflict(r)
        ELSE [r EXCEPT !.pc = "commit",
                       !.tx = [kind |-> "insert", row |-> row],
                       !.body = <<row>>]

\* nextval('students_id_seq') is taken before the constraints are checked and
\* is not given back by a rollback.
SequenceTaken(r, env) == env = "ok" /\ ~InvalidText(InsertRow(r.data))

create_execute(c, env) ==
    /\ req[c].op = "create"
    /\ req[c].pc = "insert"
    /\ env \in {"ok", "execute"}
    /\ InsertReachesIndex(req[c], env) => ~EmailInDoubt(c, InsertRow(req[c].data))
    /\ Set(c, InsertOutcome(req[c], env))
    /\ nextId' = IF SequenceTaken(req[c], env) THEN nextId + 1 ELSE nextId
    /\ UNCHANGED table

\* The table after INSERT INTO students ... commits.
Inserted(t, row) == t \cup {row}

\* conn.commit(); return jsonify(dict(new_student)), 201
create_commit(c, env) ==
    /\ req[c].op = "create"
    /\ req[c].pc = "commit"
    /\ env \in {"ok", "execute"}
    /\ IF env = "execute"
       THEN /\ Set(c, Failed(req[c], "OperationalError", "Failed to create student"))
            /\ UNCHANGED table
       ELSE /\ Set(c, Returned(req[c], 201, "", "", req[c].body))
            /\ table' = Inserted(table, req[c].tx.row)
    /\ UNCHANGED nextId

----------------------------------------------------------------------------
(* PUT /api/students/<id> *)

\* update_student without its "Check if student exists" block.
SelectUnchecked(student_id, data, env) ==
    LET r == Request("update", student_id, data)
    IN  CASE env = "connect" -> Unreachable(r)
          [] env = "cursor" -> CursorFailed(Open(r))
          [] env = "execute" ->
                Failed(Open(r), "OperationalError", "Failed to update student")
          [] OTHER -> [Open(r) EXCEPT !.pc = "update"]

\* update_student up to the existence check.
SelectOutcome(student_id, data, env) ==
    LET r == Request("update", student_id, data)
    IN  CASE env = "connect" -> Unreachable(r)
          [] env = "cursor" -> CursorFailed(Open(r))
          [] env = "execute" ->
                Failed(Open(r), "OperationalError", "Failed to update student")
          [] OTHER ->
                IF student_id \in Ids(table)
                THEN [Open(r) EXCEPT !.pc = "update"]
                ELSE Error(Open(r), 404, "Student not found")

update_student(c, student_id, data, env) ==
    /\ Free(c)
    /\ Set(c, SelectOutcome(student_id, data, env))
    /\ UNCHANGED <<table, nextId>>

\* The UPDATE finds its row and gets as far as locking it.
UpdateReachesRow(r, env) ==
    /\ r.data.kind = "object"
    /\ env = "ok"
    /\ ~InvalidText(UpdateRow(r.data, r.id))
    /\ r.id \in Ids(table)
    /\ ~NotNullViolation(UpdateRow(r.data, r.id))

\* update_student from the UPDATE statement to the return or to conn.commit().
UpdateOutcome(r, env) ==
    LET row == UpdateRow(r.data, r.id)
    IN  CASE r.data.kind # "object" ->
                \* data.get raises before the statement is sent
                Failed(r, "AttributeError", "Failed to update student")
          [] r.data.kind = "object" /\ env = "execute" ->
                Failed(r, "OperationalError", "Failed to update student")
          [] OTHER ->
                IF InvalidText(row)
                THEN Failed(r, "DataError", "Failed to update student")
                ELSE IF r.id \notin Ids(table)
                \* no row is updated: fetchone() is None and dict(None) raises
                THEN Failed(r, "TypeError", "Failed to update student")
                ELSE IF NotNullViolation(row) \/ UniqueViolation(table, row)
                THEN Conflict(r)
                ELSE [r EXCEPT !.pc = "commit",
                               !.tx = [kind |-> "update", row |-> row],
                               !.body = <<row>>]

update_execute(c, env) ==
    /\ req[c].op = "update"
    /\ req[c].pc = "update"
    /\ env \in {"ok", "execute"}
    /\ UpdateReachesRow(req[c], env) =>
          /\ ~RowLocked(c, req[c].id)
          /\ ~EmailInDoubt(c, UpdateRow(req[c].data, req[c].id))
    /\ Set(c, UpdateOutcome(req[c], env))
    /\ UNCHANGED <<table, nextId>>

\* The table after UPDATE ... SET ... WHERE id = row.id commits.
Updated(t, row) == {r \in t : r.id # row.id} \cup {row}

\* conn.commit(); return jsonify(dict(updated_student))
update_commit(c, env) ==
    /\ req[c].op = "update"
    /\ req[c].pc = "commit"
    /\ env \in {"ok", "execute"}
    /\ IF env = "execute"
       THEN /\ Set(c, Failed(req[c], "OperationalError", "Failed to update student"))
            /\ UNCHANGED table
       ELSE /\ Set(c, Returned(req[c], 200, "", "", req[c].body))
            /\ table' = Updated(table, req[c].tx.row)
    /\ UNCHANGED nextId

----------------------------------------------------------------------------
(* DELETE /api/students/<id> *)

\* delete_student up to the return or to conn.commit().
DeleteOutcome(student_id, env) ==
    LET r == Request("delete", student_id, NoneBody)
    IN  CASE env = "connect" -> Unreachable(r)
          [] env = "cursor" -> CursorFailed(Open(r))
          [] env = "execute" ->
                Failed(Open(r), "OperationalError", "Failed to delete student")
          [] OTHER ->
                \* cursor.rowcount == 0
                IF student_id \notin Ids(table)
                THEN Error(Open(r), 404, "Student not found")
                ELSE [Open(r) EXCEPT !.pc = "commit",
                          !.tx = [kind |-> "delete", row |-> RowOf(table, student_id)]]

delete_student(c, student_id, env) ==
    /\ Free(c)
    /\ env = "ok" => ~RowLocked(c, student_id)
    /\ Set(c, DeleteOutcome(student_id, env))
    /\ UNCHANGED <<table, nextId>>

\* DELETE FROM students, the WHERE clause forgotten.
DeletedAll(t, i) == {}

\* The table after DELETE FROM students WHERE id = i commits.
Deleted(t, i) == {r \in t : r.id # i}

\* conn.commit(); return jsonify({'message': ...})
delete_commit(c, env) ==
    /\ req[c].op = "delete"
    /\ req[c].pc = "commit"
    /\ env \in {"ok", "execute"}
    /\ IF env = "execute"
       THEN /\ Set(c, Failed(req[c], "OperationalError", "Failed to delete student"))
            /\ UNCHANGED table
       ELSE /\ Set(c, Returned(req[c], 200, "", "Student deleted successfully", <<>>))
            /\ table' = Deleted(table, req[c].tx.row.id)
    /\ UNCHANGED nextId

----------------------------------------------------------------------------
(* The service *)

\* After init_db(): the table exists and is empty, the sequence starts at 1,
\* no request has arrived.
Init ==
    /\ table = {}
    /\ nextId = 1
    /\ req = [c \in Clients |-> [Request("none", 0, NoneBody) EXCEPT !.pc = "idle"]]

\* The requests the clients C can make with bodies from P, the store calls
\* failing as E allows.
Handle(C, P, E) ==
    \E c \in C, env \in E :
        \/ get_students(c, env)
        \/ \E student_id \in 1..MaxId : get_student(c, student_id, env)
        \/ \E data \in P : create_student(c, data, env)
        \/ create_execute(c, env)
        \/ create_commit(c, env)
        \/ \E student_id \in 1..MaxId, data \in P :
                update_student(c, student_id, data, env)
        \/ update_execute(c, env)
        \/ update_commit(c, env)
        \/ \E student_id \in 1..MaxId : delete_student(c, student_id, env)
        \/ delete_commit(c, env)

\* One request at a time, any body, any failure of the store.
Next == Handle({"c1"}, Payloads, Envs)

Spec == Init /\ [][Next]_vars

\* Bodies of the requests that run concurrently.
ConcurrentPayloads ==
    {Object("", "ann@x.com", "20", "CS"),
     Object("Ann B", "ann@x.com", "20", "CS"),
     Object("Ann B", "bob@x.com", "20", "CS"),
     Object("Ann B", Absent, Absent, Absent),
     Object("Ann B", Null, "20", "CS")}

\* Two requests in flight at once, the store answering every call.
NextConcurrent == Handle(Clients, ConcurrentPayloads, {"ok"})

SpecConcurrent == Init /\ [][NextConcurrent]_vars

----------------------------------------------------------------------------
(* Reading a step *)

Done(c) == req[c].pc = "done"

\* This step is client c's handler o starting on a new request.
Starts(c, o) == Free(c) /\ req'[c] # req[c] /\ req'[c].op = o

\* This step is client c's handler o going on from pc p.
Steps(c, o, p) == req[c].op = o /\ req[c].pc = p /\ req'[c] # req[c]

\* The store failed the call the request made (it could not be reached, or
\* a cursor, a statement or a commit raised for a reason of its own).
StoreFault(r) ==
    \/ r.error = "Database connection failed"
    \/ r.exc \in {"OperationalError", "UnboundLocalError"}

Success(r) == r.status \in 200..299

----------------------------------------------------------------------------
(* C1 *)

\* C1: in every state of the table that Create, Update and Delete requests
\* (successful or failed, two at a time) can reach, no two rows share an id,
\* no two rows share an email, and no row has a null name, email, age or
\* course.
C1_TableInvariant ==
    /\ \A r, q \in table : r.id = q.id => r = q
    /\ \A r, q \in table : r.email = q.email => r = q
    /\ \A r \in table :
          r.name # Null /\ r.email # Null /\ r.age # Null /\ r.course # Null

\* Two rows are stored, one request was refused with 409 and an Update went
\* through.
C1_Witness ==
    /\ Cardinality(table) = 2
    /\ \E c, d \in Clients :
          /\ Done(c) /\ req[c].status = 409
          /\ Done(d) /\ req[d].op = "update" /\ req[d].status = 200

----------------------------------------------------------------------------
(* C2 *)

\* C2: a Create whose email is the email of a row in the table when its
\* INSERT runs responds 409 "Email already exists", its transaction is rolled
\* back and its connection closed, and the table is the same as before and
\* holds exactly one row with that email.  With two Creates of one email in
\* flight at once, never both hold an uncommitted INSERT of it: the one whose
\* INSERT finds no committed row goes on to commit and respond 201 having
\* added exactly its row, and the other then finds that row and responds 409.
C2_DuplicateCreate ==
    /\ [](\A c, d \in Clients :
            (c # d /\ req[c].tx.kind = "insert" /\ req[d].tx.kind = "insert")
                => req[c].tx.row.email # req[d].tx.row.email)
    /\ [][\A c \in Clients :
            Steps(c, "create", "insert") =>
                LET e == req[c].data.email
                IN  IF \E r \in table : r.email = e
                    THEN /\ req'[c].pc = "done"
                         /\ req'[c].status = 409
                         /\ req'[c].error = "Email already exists"
                         /\ req'[c].tx = NoTx
                         /\ req'[c].conn = "closed"
                         /\ table' = table
                         /\ Cardinality({r \in table' : r.email = e}) = 1
                    ELSE req[c].data \in ValidObjects =>
                            /\ req'[c].pc = "commit"
                            /\ req'[c].tx.kind = "insert"
                            /\ req'[c].tx.row.email = e]_vars
    /\ [][\A c \in Clients :
            Steps(c, "create", "commit") =>
                /\ req'[c].pc = "done"
                /\ req'[c].status = 201
                /\ req[c].tx.row \notin table
                /\ table' = table \cup {req[c].tx.row}
                /\ Cardinality({r \in table' : r.email = req[c].data.email}) = 1]_vars

\* Two Creates of one email have ended, one with 201 and one with 409, and
\* the table holds one row with that email.
C2_Witness ==
    \E c, d \in Clients :
        /\ Done(c) /\ req[c].op = "create" /\ req[c].status = 201
        /\ Done(d) /\ req[d].op = "create" /\ req[d].status = 409
        /\ req[d].data \in ValidObjects
        /\ req[d].data.email = req[c].data.email
        /\ Cardinality({r \in table : r.email = req[c].data.email}) = 1

----------------------------------------------------------------------------
(* C3 *)

\* The first of name, email, age, course that is not a key of the body d.
C3_FirstAbsent(d) ==
    IF d.name = Absent THEN "name"
    ELSE IF d.email = Absent THEN "email"
    ELSE IF d.age = Absent THEN "age"
    ELSE IF d.course = Absent THEN "course"
    ELSE ""

\* C3: a Create whose body lacks at least one of name, email, age, course
\* responds 400 with an error naming the first absent one in that order,
\* without asking for a connection (whatever the store would have answered)
\* and leaving the table and the sequence unchanged; a body with the four
\* keys present never gets 400, whatever their values (null, wrong-typed,
\* empty).
C3_MissingField ==
    [][\A c \in Clients :
        (Starts(c, "create") /\ req'[c].data.kind # "none") =>
            LET d == req'[c].data
            IN  IF C3_FirstAbsent(d) # ""
                THEN /\ req'[c].pc = "done"
                     /\ req'[c].status = 400
                     /\ req'[c].error = "Missing required field: " \o C3_FirstAbsent(d)
                     /\ req'[c].conn = "none"
                     /\ ~req'[c].uncaught
                     /\ table' = table
                     /\ nextId' = nextId
                ELSE req'[c].status # 400]_vars

\* A Create that has name but neither email nor course was refused with 400
\* naming email.
C3_Witness ==
    \E c \in Clients :
        /\ Done(c) /\ req[c].op = "create"
        /\ req[c].data.name # Absent
        /\ req[c].data.email = Absent
        /\ req[c].data.course = Absent
        /\ req[c].status = 400
        /\ req[c].error = "Missing required field: email"
        /\ req[c].conn = "none"

----------------------------------------------------------------------------
(* C4 *)

\* The record the claim expects a PUT with body d on row i to leave and
\* return: the body's value for a key it holds, null for a key it omits.
C4_Replaced(d, i) ==
    [id |-> i,
     name |-> IF d.name = Absent THEN Null ELSE d.name,
     email |-> IF d.email = Absent THEN Null ELSE d.email,
     age |-> IF d.age = Absent THEN Null ELSE d.age,
     course |-> IF d.course = Absent THEN Null ELSE d.course]

----------------------------------------------------------------------------
(* C5 *)

\* C5: an Update of an id that matches no row, the store answering, responds
\* 404 "Student not found" whatever its body (null, an array, an object that
\* omits fields or whose email another row holds): no write is attempted (no
\* exception, no transaction left) and the table and the sequence are
\* unchanged.
C5_UpdateMissingRow ==
    [][\A c \in Clients :
        (/\ Starts(c, "update")
         /\ req'[c].id \notin Ids(table)
         /\ ~StoreFault(req'[c])) =>
            /\ req'[c].pc = "done"
            /\ req'[c].status = 404
            /\ req'[c].error = "Student not found"
            /\ req'[c].exc = ""
            /\ req'[c].tx = NoTx
            /\ req'[c].conn = "closed"
            /\ table' = table
            /\ nextId' = nextId]_vars

\* An Update of an id that is in no row, with the email of a stored row, was
\* answered 404.
C5_Witness ==
    \E c \in Clients :
        /\ Done(c) /\ req[c].op = "update"
        /\ req[c].id \notin Ids(table)
        /\ req[c].status = 404
        /\ \E r \in table : r.email = req[c].data.email

----------------------------------------------------------------------------
(* C6 *)

\* C6: a Delete of an id that a row has when its DELETE runs goes on to
\* commit and responds 200, and its commit removes that row and no other; an
\* id that has been handed out and is in no row (nor in an uncommitted
\* INSERT) is in no row ever after, and a Get of an id that is in no row
\* responds 404; a Delete of an id that is in no row responds 404 and leaves
\* the table unchanged.
C6_DeleteRemoves ==
    /\ [][\A c \in Clients :
            Starts(c, "delete") =>
                IF req'[c].id \in Ids(table)
                THEN /\ req'[c].pc = "commit"
                     /\ req'[c].tx.kind = "delete"
                     /\ req'[c].tx.row \in table
                     /\ req'[c].tx.row.id = req'[c].id
                ELSE /\ req'[c].pc = "done"
                     /\ req'[c].status = 404
                     /\ req'[c].error = "Student not found"
                     /\ req'[c].tx = NoTx
                     /\ table' = table]_vars
    /\ [][\A c \in Clients :
            Steps(c, "delete", "commit") =>
                /\ req'[c].pc = "done"
                /\ req'[c].status = 200
                /\ req'[c].error = ""
                /\ req[c].tx.row \in table
                /\ table' = table \ {req[c].tx.row}
                /\ req[c].id \notin Ids(table')]_vars
    /\ [][\A i \in 1..MaxId :
            (/\ i < nextId
             /\ i \notin Ids(table)
             /\ \A d \in Clients : ~(req[d].tx.kind = "insert" /\ req[d].tx.row.id = i))
                => i \notin Ids(table')]_vars
    /\ [][\A c \in Clients :
            (Starts(c, "get") /\ req'[c].id \notin Ids(table)) =>
                /\ req'[c].status = 404
                /\ req'[c].error = "Student not found"]_vars

\* A Delete of an id was answered 200, a Get of the same id 404, and another
\* row is still stored.
C6_Witness ==
    \E c, d \in Clients :
        /\ Done(c) /\ req[c].op = "delete" /\ req[c].status = 200
        /\ Done(d) /\ req[d].op = "get" /\ req[d].status = 404
        /\ req[d].id = req[c].id
        /\ req[c].id \notin Ids(table)
        /\ table # {}

----------------------------------------------------------------------------
(* C7 *)

\* C7: List, the store answering, responds 200 with every row of the table,
\* each once, in strictly ascending id order, and changes nothing; a
\* committed Create adds exactly one row and a committed Update none, so that
\* after N Creates on an empty table and no Delete it returns N records.
C7_ListAll ==
    /\ [][\A c \in Clients :
            (Starts(c, "list") /\ ~StoreFault(req'[c])) =>
                LET b == req'[c].body
                IN  /\ req'[c].pc = "done"
                    /\ req'[c].status = 200
                    /\ Len(b) = Cardinality(table)
                    /\ {b[i] : i \in 1..Len(b)} = table
                    /\ \A i \in 1..(Len(b) - 1) : b[i].id < b[i + 1].id
                    /\ table' = table
                    /\ nextId' = nextId]_vars
    /\ [][\A c \in Clients :
            (Steps(c, "create", "commit") /\ Success(req'[c])) =>
                Cardinality(table') = Cardinality(table) + 1]_vars
    /\ [][\A c \in Clients :
            (Steps(c, "update", "commit") /\ Success(req'[c])) =>
                Cardinality(table') = Cardinality(table)]_vars

\* A List returned the two rows of the table, id 1 before id 2.
C7_Witness ==
    \E c \in Clients :
        /\ Done(c) /\ req[c].op = "list" /\ req[c].status = 200
        /\ Len(req[c].body) = 2
        /\ req[c].body[1].id < req[c].body[2].id
        /\ {req[c].body[1], req[c].body[2]} = table

----------------------------------------------------------------------------
(* C8 *)

\* C8: every request that has ended was answered by its handler: no
\* exception left the handler, a response that is not 2xx carries an error
\* key and a 2xx response carries none.
C8_FailuresCaught ==
    \A c \in Clients :
        Done(c) => /\ ~req[c].uncaught
                   /\ Success(req[c]) <=> req[c].error = ""

----------------------------------------------------------------------------
(* C9 *)

\* C9: every request that has ended and had obtained a connection has closed
\* it, and has left no uncommitted write.
C9_ConnectionClosed ==
    \A c \in Clients :
        Done(c) => req[c].conn # "open" /\ req[c].tx = NoTx

----------------------------------------------------------------------------
(* C10 *)

\* C10: an Update that runs concurrently with a Delete of its row responds
\* 200 or 404 (or 409 when its body is refused), never 500, also when the
\* Delete commits between the Update's SELECT and its UPDATE.
C10_UpdateDeleteRace ==
    \A c \in Clients :
        (Done(c) /\ req[c].op = "update") =>
            req[c].status \in {200, 404, 409}

====
